---- MODULE Spec2Model ----
(***************************************************************************)
(* Model of py/rnn/evaluator.py: the Recorder (start / record / flush),    *)
(* the Evaluator (evaluate / evaluate_and_record), and the two external    *)
(* collaborators they call: the evaluation store (insert_evaluation,       *)
(* push_evaluation_records) and the unrolled model handle (reset_state,    *)
(* run).                                                                   *)
(***************************************************************************)
EXTENDS Integers, Sequences, FiniteSets, TLC

\* ---------------------------------------------------------------- bounds
MaxBatch == 2        \* inputs.shape[0] ranges over 1..MaxBatch
MaxLen == 2          \* inputs.shape[1] ranges over 1..MaxLen
MaxFlushEvery == 3   \* Recorder(flush_every) ranges over 1..MaxFlushEvery
MaxOps == 3          \* calls made on the Recorder directly by a driver
MaxCalls == 2        \* evaluate / evaluate_and_record calls on one Evaluator
MaxInputSize == 2    \* evaluate(input_size) ranges over 1..MaxInputSize
Vals == {0, 1}       \* the signal values a hand-written bundle may carry

\* ------------------------------------------------------- values and arrays
None == [kind |-> "none", rows |-> <<>>]

\* a 2-D numpy array of word ids; token (i, k) differs by row and by column
Token(i, k) == 10 * i + k
Array2(B, L) ==
    [kind |-> "nd2", rows |-> [i \in 1..B |-> [k \in 1..L |-> Token(i, k)]]]
\* an array that is not 2-D (a flat list converted by numpy)
Array1 == [kind |-> "nd1", rows |-> <<>>]

InputArrays == {Array2(B, L) : B \in 1..MaxBatch, L \in 1..MaxLen}

Shape0(a) == Len(a.rows)
Shape1(a) == Len(a.rows[1])

VARIABLES
    \* Recorder fields
    data_name, model_name, eval_doc_id, buffer, batch_size, inputs,
    flush_every, step,
    \* evaluation store (py.db.language_model): the documents created, the
    \* batches appended, and whether one of its calls has raised so far
    inserted, pushed, db_failed,
    \* Evaluator fields (constructed is FALSE until __init__ has returned) and
    \* the arguments its constructor was called with
    constructed, record_every, summary_ops, init_args,
    \* the unrolled model: its shape and the time-steps run since the last reset
    model, model_state,
    \* the evaluate / evaluate_and_record call in progress: position, locals,
    \* and the collaborator calls it has made so far, in order
    pc, frame, trace,
    \* the driver: number of calls made, the last call and how it ended, and
    \* the number of record calls since the last start; produced is every
    \* per-sample dict record has appended to the buffer so far, in order
    nOps, calls, last_op, err, nrec, produced

recVars == <<data_name, model_name, eval_doc_id, buffer, batch_size, inputs,
             flush_every, step>>
dbVars == <<inserted, pushed>>
evVars == <<constructed, record_every, summary_ops, init_args, model>>
callVars == <<pc, frame, trace>>
vars == <<recVars, dbVars, db_failed, evVars, model_state, callVars, nOps,
          calls, last_op, err, nrec, produced>>

\* ------------------------------------------------------------ the buffer
\* self.buffer is a defaultdict(list): reading a missing key yields [] (and
\* creates it), pop of a missing key raises KeyError.
BufGet(buf, key) == IF key \in DOMAIN buf THEN buf[key] ELSE <<>>
BufPop(buf, key) == [k \in (DOMAIN buf) \ {key} |-> buf[k]]
BufAdd(buf, key, items) ==
    [k \in (DOMAIN buf) \cup {key} |->
        IF k = key THEN BufGet(buf, key) \o items ELSE buf[k]]

\* ------------------------------------------------------ evaluation store
\* insert_evaluation returns the identifier of the document it creates
NewDocId(n) == 100 + n

\* ---------------------------------------------------------- Recorder.start
StartErr(inp, failAt) ==
    IF inp.kind # "nd2" THEN "AssertionError"
    ELSE IF failAt # 0 THEN "DbError"
    ELSE "none"

\* every document carrying the first row
InsertCall_row0(inp, i, n) ==
    [data_name |-> data_name, model_name |-> model_name,
     tokens |-> inp.rows[1], id |-> NewDocId(n)]

\* the document inserted for row i of inp
InsertCall(inp, i, n) ==
    [data_name |-> data_name, model_name |-> model_name,
     tokens |-> inp.rows[i], id |-> NewDocId(n)]

\* failAt = 0: every insert_evaluation succeeds; failAt = k: the k-th raises
StartInserts(inp, failAt) ==
    LET n == IF failAt = 0 THEN Shape0(inp) ELSE failAt - 1
    IN  [i \in 1..n |-> InsertCall(inp, i, Len(inserted) + i)]

StartDocIds(old, docs) == old \o [i \in 1..Len(docs) |-> docs[i].id]

start(inp, failAt) ==
    IF inp.kind # "nd2"
    THEN UNCHANGED <<recVars, dbVars>>
    ELSE LET docs == StartInserts(inp, failAt)
         IN  /\ batch_size' = Shape0(inp)
             /\ inputs' = inp
             /\ inserted' = inserted \o docs
             /\ eval_doc_id' = StartDocIds(eval_doc_id, docs)
             /\ UNCHANGED <<data_name, model_name, buffer, flush_every, step,
                            pushed>>

\* --------------------------------------------------------- Recorder.flush
FlushErr(buf, pushFails) ==
    IF "eval_ids" \notin DOMAIN buf \/ "records" \notin DOMAIN buf
    THEN "KeyError"
    ELSE IF pushFails THEN "DbError"
    ELSE "none"

FlushBuffer(buf) ==
    IF "eval_ids" \notin DOMAIN buf THEN buf
    ELSE BufPop(BufPop(buf, "eval_ids"), "records")

\* a batch whose push raised stored all the same
FlushPushed_resubmitted(buf, log, pushFails) ==
    IF FlushErr(buf, pushFails) \in {"none", "DbError"}
    THEN Append(log, [eval_ids |-> buf["eval_ids"], records |-> buf["records"]])
    ELSE log

FlushPushed(buf, log, pushFails) ==
    IF FlushErr(buf, pushFails) = "none"
    THEN Append(log, [eval_ids |-> buf["eval_ids"], records |-> buf["records"]])
    ELSE log

\* ------------------------------------------------------- Recorder.record
WordId(inp, i, st) == inp.rows[i][st + 1]

\* the per-sample dict of sample i
SampleRecord(msg, i, inp, st) ==
    [n \in (DOMAIN msg) \cup {"word_id"} |->
        IF n = "word_id" THEN WordId(inp, i, st) ELSE msg[n][i]]

RecordRecords(msg, bs, inp, st) ==
    [i \in 1..bs |-> SampleRecord(msg, i, inp, st)]

\* the new records put in front of the buffered ones
RecordBuffer_prepended(buf, msg, bs, inp, st, ids) ==
    LET b == BufAdd(BufAdd(buf, "records", <<>>), "eval_ids", ids)
    IN  [b EXCEPT !["records"] = RecordRecords(msg, bs, inp, st) \o @]

\* the buffer after the two += of record
RecordBuffer(buf, msg, bs, inp, st, ids) ==
    BufAdd(BufAdd(buf, "records", RecordRecords(msg, bs, inp, st)),
           "eval_ids", ids)

\* flushing only once the threshold is exceeded
ShouldFlush_strict(buf, fe) == Len(BufGet(buf, "eval_ids")) > fe
ShouldFlush(buf, fe) == Len(BufGet(buf, "eval_ids")) >= fe

\* the step counter after one record call
RecordStep(st) == st

\* every per-sample dict appended so far, after one more record call
RecordProduced(old, msg) ==
    IF inputs.kind = "none" THEN old
    ELSE old \o RecordRecords(msg, batch_size, inputs, step)

RecordErr(msg, pushFails) ==
    IF inputs.kind = "none" THEN "TypeError"
    ELSE LET b == RecordBuffer(buffer, msg, batch_size, inputs, step, eval_doc_id)
         IN  IF ShouldFlush(b, flush_every) THEN FlushErr(b, pushFails)
             ELSE "none"

record(msg, pushFails) ==
    IF inputs.kind = "none"
    THEN UNCHANGED <<recVars, dbVars>>
    ELSE LET b == RecordBuffer(buffer, msg, batch_size, inputs, step, eval_doc_id)
         IN  /\ IF ShouldFlush(b, flush_every)
                THEN /\ buffer' = FlushBuffer(b)
                     /\ pushed' = FlushPushed(b, pushed, pushFails)
                ELSE /\ buffer' = b
                     /\ pushed' = pushed
             /\ step' = RecordStep(step)
             /\ UNCHANGED <<data_name, model_name, eval_doc_id, batch_size,
                            inputs, flush_every, inserted>>

flush(pushFails) ==
    /\ buffer' = FlushBuffer(buffer)
    /\ pushed' = FlushPushed(buffer, pushed, pushFails)
    /\ UNCHANGED <<data_name, model_name, eval_doc_id, batch_size, inputs,
                   flush_every, step, inserted>>

\* --------------------------------------------------- Evaluator.__init__
\* the per-layer state of the unrolled model: a plain tensor or an
\* LSTMStateTuple; each name below stands for the tensor it designates
\* every layer taken for a plain tensor
Plain_all(layers) == 1..Len(layers)
Plain(layers) == {l \in 1..Len(layers) : layers[l] = "plain"}
Lstm(layers) == {l \in 1..Len(layers) : layers[l] = "lstm"}

RECURSIVE Ascending(_)
\* the members of a set of layer numbers in layer order
Ascending(S) ==
    IF S = {} THEN <<>>
    ELSE LET m == CHOOSE x \in S : \A y \in S : x <= y
         IN  <<m>> \o Ascending(S \ {m})

StateHandle(kind, l) == [kind |-> kind, layer |-> l]
Stack(kind, ls) == [j \in 1..Len(ls) |-> StateHandle(kind, ls[j])]

StateKeys(layers, log_state) ==
    IF ~log_state THEN {}
    ELSE (IF Plain(layers) # {} THEN {"state"} ELSE {})
         \cup (IF Lstm(layers) # {} THEN {"state_c", "state_h"} ELSE {})

InputKeys(embed, log_input) ==
    IF ~log_input THEN {}
    ELSE {"input"} \cup (IF embed THEN {"input_embedding"} ELSE {})

OutputKeys(log_output) == IF log_output THEN {"output"} ELSE {}

SummaryOps(layers, embed, log_state, log_input, log_output) ==
    [n \in StateKeys(layers, log_state) \cup InputKeys(embed, log_input)
           \cup OutputKeys(log_output) |->
        CASE n = "state" -> Stack("state", Ascending(Plain(layers)))
          [] n = "state_c" -> Stack("c", Ascending(Lstm(layers)))
          [] n = "state_h" -> Stack("h", Ascending(Lstm(layers)))
          [] n = "input" -> <<StateHandle("input_holders", 0)>>
          [] n = "input_embedding" -> <<StateHandle("inputs", 0)>>
          [] n = "output" -> <<StateHandle("outputs", 0)>>]

\* log_gradients assigns into self.summary_ops before the attribute exists
InitErr(log_gradients) == IF log_gradients THEN "AttributeError" ELSE "none"

\* ------------------------------------------------------- the model handle
\* time-steps run since the last reset, after one run of `stride` steps
RunState(m, stride, refresh_state) ==
    (IF refresh_state THEN 0 ELSE m) + stride

\* the bundle a run returns: one value per requested signal and per sample
RunEvals(eval_ops, m, inp) ==
    [n \in DOMAIN eval_ops |-> [i \in 1..Shape0(inp) |-> 100 * m + inp.rows[i][1]]]

\* the (loss, acc-1) sums a run of one block may return
SumChoices == {[loss |-> 3, acc |-> 1], [loss |-> 5, acc |-> 2]}

\* ---------------------------------------------- numpy conversion of inputs
\* what evaluate_and_record may be handed: nested lists, a flat list, or an
\* object numpy cannot convert
RawInputs ==
    {[kind |-> "list2", rows |-> Array2(model.batch_size, L).rows] : L \in 1..MaxLen}
    \cup {[kind |-> "list1", rows |-> <<>>], [kind |-> "object", rows |-> <<>>]}

NpArrayRaises(x) == x.kind = "object"
NpArray(x) ==
    IF x.kind = "list2" THEN [kind |-> "nd2", rows |-> x.rows]
    ELSE IF x.kind = "list1" THEN Array1
    ELSE x

\* the targets that may accompany inputs x
RawTargets(x) ==
    {None, x, [kind |-> "list1", rows |-> <<>>], [kind |-> "object", rows |-> <<>>]}

\* a[:, i:(i+1)] needs two axes: on a 1-D array it raises IndexError
SliceRaises(a) == a.kind = "nd1"

\* inputs[:, i:(i+1)] for a 2-D array, None for None
Slice(a, i) ==
    IF a.kind = "none" THEN None
    ELSE [kind |-> "nd2", rows |-> [r \in 1..Shape0(a) |-> <<a.rows[r][i + 1]>>]]

\* ------------------------------------------------------------- the trace
NoSums == [loss |-> 0, acc |-> 0]
Event(op, i, inp, tgt, stride, eval_ops, sum_ops, refresh_state, evals) ==
    [op |-> op, i |-> i, inputs |-> inp, targets |-> tgt, stride |-> stride,
     eval_ops |-> eval_ops, sum_ops |-> sum_ops, refresh_state |-> refresh_state,
     evals |-> evals, sums |-> NoSums]
CallEvent(op) == Event(op, 0, None, None, 0, <<>>, {}, FALSE, <<>>)
StartEvent(inp, tgt) == Event("start", 0, inp, tgt, 0, <<>>, {}, FALSE, <<>>)
RecordEvent(i, evals) == Event("record", i, None, None, 0, <<>>, {}, FALSE, evals)

NoFrame ==
    [fn |-> "none", inputs |-> None, targets |-> None, verbose |-> FALSE,
     refresh_state |-> FALSE, input_size |-> 0, i |-> 0, evals |-> <<>>,
     total_loss |-> 0, acc |-> 0, loss |-> <<0, 1>>, acc_avg |-> <<0, 1>>]

Idle == {"idle", "done", "raised"}

\* ------------------------------------------- Evaluator.evaluate_and_record
\* the stride handed to model.run
RecordStride(re) == re

\* the progress line divides by input_size // 10
ProgressErr(verbose, input_size) ==
    IF verbose /\ input_size \div 10 = 0 THEN "ZeroDivisionError" ELSE "none"

EvaluateAndRecord ==
    /\ constructed /\ pc \in Idle /\ calls < MaxCalls
    /\ \E x \in RawInputs : \E t \in RawTargets(x) :
       \E verbose \in BOOLEAN : \E refresh_state \in BOOLEAN :
          IF NpArrayRaises(x) \/ NpArrayRaises(t)
          THEN /\ pc' = "raised"
               /\ err' = "TypeError"
               /\ frame' = [NoFrame EXCEPT
                      !.fn = "evaluate_and_record",
                      !.inputs = IF NpArrayRaises(x) THEN x ELSE NpArray(x),
                      !.targets = t]
          ELSE /\ pc' = "ear_start"
               /\ err' = "none"
               /\ frame' = [NoFrame EXCEPT !.fn = "evaluate_and_record",
                                            !.inputs = NpArray(x),
                                            !.targets = NpArray(t),
                                            !.verbose = verbose,
                                            !.refresh_state = refresh_state]
    /\ trace' = <<>>
    /\ calls' = calls + 1
    /\ last_op' = "evaluate_and_record"
    /\ UNCHANGED <<recVars, dbVars, db_failed, evVars, model_state, nOps, nrec,
                   produced>>

EarStart ==
    /\ pc = "ear_start"
    /\ \E failAt \in 0..(IF frame.inputs.kind = "nd2" THEN Shape0(frame.inputs) ELSE 0) :
          /\ start(frame.inputs, failAt)
          /\ err' = StartErr(frame.inputs, failAt)
          /\ db_failed' = (db_failed \/ err' = "DbError")
          /\ pc' = IF StartErr(frame.inputs, failAt) = "none"
                   THEN "ear_reset" ELSE "raised"
    /\ frame' = IF frame.inputs.kind = "nd2"
                THEN [frame EXCEPT !.input_size = Shape1(frame.inputs)]
                ELSE frame
    /\ trace' = Append(trace, StartEvent(frame.inputs, frame.targets))
    /\ nrec' = IF frame.inputs.kind = "nd2" THEN 0 ELSE nrec
    /\ UNCHANGED <<evVars, model_state, nOps, calls, last_op, produced>>

\* going on to the loop without resetting the model
EarReset_skipped ==
    /\ pc = "ear_reset"
    /\ pc' = "ear_run"
    /\ UNCHANGED <<recVars, dbVars, db_failed, evVars, model_state, frame, trace,
                   nOps, calls, last_op, err, nrec, produced>>

EarReset ==
    /\ pc = "ear_reset"
    /\ model_state' = 0
    /\ trace' = Append(trace, CallEvent("reset_state"))
    /\ pc' = "ear_run"
    /\ UNCHANGED <<recVars, dbVars, db_failed, evVars, frame, nOps, calls, last_op, err,
                   nrec, produced>>

EarRun ==
    /\ pc = "ear_run"
    /\ IF SliceRaises(frame.targets)
       THEN /\ pc' = "raised"
            /\ err' = "IndexError"
            /\ UNCHANGED <<model_state, frame, trace>>
       ELSE LET inputs_ == Slice(frame.inputs, frame.i)
                targets_ == Slice(frame.targets, frame.i)
                stride == RecordStride(record_every)
                m == RunState(model_state, stride, frame.refresh_state)
                evals == RunEvals(summary_ops, m, inputs_)
            IN  /\ model_state' = m
                /\ frame' = [frame EXCEPT !.evals = evals]
                /\ trace' = Append(trace,
                       Event("run", frame.i, inputs_, targets_, stride, summary_ops,
                             {}, frame.refresh_state, evals))
                /\ pc' = "ear_record"
                /\ err' = err
    /\ UNCHANGED <<recVars, dbVars, db_failed, evVars, nOps, calls, last_op, nrec,
                   produced>>

EarRecord ==
    /\ pc = "ear_record"
    /\ \E pushFails \in BOOLEAN :
          LET e1 == RecordErr(frame.evals, pushFails)
              e2 == ProgressErr(frame.verbose, frame.input_size)
          IN  /\ record(frame.evals, pushFails)
              /\ err' = IF e1 # "none" THEN e1 ELSE e2
              /\ db_failed' = (db_failed \/ err' = "DbError")
              /\ pc' = IF e1 # "none" \/ e2 # "none" THEN "raised"
                       ELSE IF frame.i + 1 < frame.input_size THEN "ear_run"
                       ELSE "done"
    /\ frame' = [frame EXCEPT !.i = frame.i + 1]
    /\ trace' = Append(trace, RecordEvent(frame.i, frame.evals))
    /\ nrec' = nrec + 1
    /\ produced' = RecordProduced(produced, frame.evals)
    /\ UNCHANGED <<evVars, model_state, nOps, calls, last_op>>

\* ------------------------------------------------------ Evaluator.evaluate
Feeder == [kind |-> "feeder", rows |-> <<>>]

\* verbose only selects a progress print (lines 81-83) and is left out
Evaluate ==
    /\ constructed /\ pc \in Idle /\ calls < MaxCalls
    /\ \E input_size \in 1..MaxInputSize : \E refresh_state \in BOOLEAN :
          frame' = [NoFrame EXCEPT !.fn = "evaluate", !.inputs = Feeder,
                                   !.targets = Feeder,
                                   !.refresh_state = refresh_state,
                                   !.input_size = input_size]
    /\ model_state' = 0
    /\ trace' = <<CallEvent("reset_state")>>
    /\ pc' = "ev_run"
    /\ err' = "none"
    /\ calls' = calls + 1
    /\ last_op' = "evaluate"
    /\ UNCHANGED <<recVars, dbVars, db_failed, evVars, nOps, nrec, produced>>

\* running one time-step per block
EvaluateStride_one(re) == 1

\* the stride evaluate hands to model.run
EvaluateStride(re) == re

\* the total divided by the number of blocks
Average_per_block(total, input_size, re) == <<total, input_size>>

\* total / (input_size * record_every), kept as a fraction
Average(total, input_size, re) == <<total, input_size * re>>

EvRun ==
    /\ pc = "ev_run"
    /\ \E sums \in SumChoices :
          LET stride == EvaluateStride(record_every)
              m == RunState(model_state, stride, frame.refresh_state)
              total == frame.total_loss + sums.loss
              acc == frame.acc + sums.acc
              last == frame.i + 1 = frame.input_size
          IN  /\ model_state' = m
              /\ trace' = Append(trace,
                     [Event("run", frame.i, frame.inputs, frame.targets, stride,
                            summary_ops, {"loss", "acc-1"}, frame.refresh_state,
                            <<>>) EXCEPT !.sums = sums])
              /\ frame' = [frame EXCEPT
                     !.i = frame.i + 1, !.total_loss = total, !.acc = acc,
                     !.loss = IF last
                              THEN Average(total, frame.input_size, record_every)
                              ELSE @,
                     !.acc_avg = IF last
                                 THEN Average(acc, frame.input_size, record_every)
                                 ELSE @]
              /\ pc' = IF last THEN "done" ELSE "ev_run"
    /\ UNCHANGED <<recVars, dbVars, db_failed, evVars, nOps, calls, last_op, err, nrec,
                   produced>>

\* ------------------------------------------------------------ the driver
\* a bundle written by hand for a direct record call: one signal whose value
\* differs by sample and by the tag v
Bundle(bs, v) == [n \in {"output"} |-> [i \in 1..bs |-> 10 * v + i]]
Bundles(bs) == {Bundle(bs, v) : v \in Vals}

\* the constructor arguments the Evaluators of the model are built with
Args(layers, embed, bs, re, log_state, log_input, log_output, log_gradients) ==
    [layers |-> layers, map_to_embedding |-> embed, batch_size |-> bs,
     record_every |-> re, log_state |-> log_state, log_input |-> log_input,
     log_output |-> log_output, log_gradients |-> log_gradients]
EvaluatorArgs ==
    {Args(<<"plain", "lstm", "plain">>, TRUE, 2, 1, TRUE, TRUE, TRUE, FALSE),
     Args(<<"lstm">>, FALSE, 1, 4, TRUE, FALSE, TRUE, FALSE),
     Args(<<"plain">>, FALSE, 1, 1, TRUE, TRUE, TRUE, TRUE)}

NoModel == [batch_size |-> 0, num_steps |-> 0, layers |-> <<>>]
NoArgs == Args(<<>>, FALSE, 0, 0, FALSE, FALSE, FALSE, FALSE)

Init ==
    /\ data_name = "ptb"
    /\ model_name = "lstm"
    /\ eval_doc_id = <<>>
    /\ buffer = <<>>
    /\ batch_size = 1
    /\ inputs = None
    /\ flush_every \in 1..MaxFlushEvery
    /\ step = 0
    /\ inserted = <<>>
    /\ pushed = <<>>
    /\ db_failed = FALSE
    /\ constructed = FALSE
    /\ record_every = 0
    /\ summary_ops = <<>>
    /\ init_args = NoArgs
    /\ model = NoModel
    /\ model_state = 0
    /\ pc = "idle"
    /\ frame = NoFrame
    /\ trace = <<>>
    /\ nOps = 0
    /\ calls = 0
    /\ last_op = "init"
    /\ err = "none"
    /\ nrec = 0
    /\ produced = <<>>

\* Evaluator(rnn_, batch_size, record_every, log_state, ...)
EvaluatorInit ==
    /\ ~constructed /\ nOps = 0 /\ last_op = "init"
    /\ \E f \in EvaluatorArgs :
          /\ init_args' = f
          /\ err' = InitErr(f.log_gradients)
          /\ constructed' = (InitErr(f.log_gradients) = "none")
          /\ IF InitErr(f.log_gradients) = "none"
             THEN /\ record_every' = f.record_every
                  /\ model' = [batch_size |-> f.batch_size, num_steps |-> f.record_every,
                              layers |-> f.layers]
                  /\ summary_ops' = SummaryOps(f.layers, f.map_to_embedding, f.log_state,
                                               f.log_input, f.log_output)
             ELSE UNCHANGED <<record_every, model, summary_ops>>
    /\ last_op' = "Evaluator"
    /\ UNCHANGED <<recVars, dbVars, db_failed, model_state, callVars, nOps,
                   calls, nrec, produced>>

Start ==
    /\ ~constructed /\ last_op # "Evaluator" /\ nOps < MaxOps
    /\ \E inp \in InputArrays \cup {Array1} :
         \E failAt \in 0..(IF inp.kind = "nd2" THEN Shape0(inp) ELSE 0) :
            /\ start(inp, failAt)
            /\ err' = StartErr(inp, failAt)
            /\ db_failed' = (db_failed \/ err' = "DbError")
            /\ nrec' = IF inp.kind = "nd2" THEN 0 ELSE nrec
    /\ last_op' = "start"
    /\ nOps' = nOps + 1
    /\ UNCHANGED <<evVars, model_state, callVars, calls, produced>>

Record ==
    /\ ~constructed /\ last_op # "Evaluator" /\ nOps < MaxOps
    /\ \E msg \in Bundles(batch_size) : \E pushFails \in BOOLEAN :
            /\ record(msg, pushFails)
            /\ err' = RecordErr(msg, pushFails)
            /\ db_failed' = (db_failed \/ err' = "DbError")
            /\ produced' = RecordProduced(produced, msg)
    /\ nrec' = IF inputs.kind = "none" THEN nrec ELSE nrec + 1
    /\ last_op' = "record"
    /\ nOps' = nOps + 1
    /\ UNCHANGED <<evVars, model_state, callVars, calls>>

Flush ==
    /\ ~constructed /\ last_op # "Evaluator" /\ nOps < MaxOps
    /\ \E pushFails \in BOOLEAN :
            /\ flush(pushFails)
            /\ err' = FlushErr(buffer, pushFails)
            /\ db_failed' = (db_failed \/ err' = "DbError")
    /\ last_op' = "flush"
    /\ nOps' = nOps + 1
    /\ UNCHANGED <<evVars, model_state, callVars, calls, nrec, produced>>

Next ==
    \/ Start
    \/ Record
    \/ Flush
    \/ EvaluatorInit
    \/ EvaluateAndRecord
    \/ EarStart
    \/ EarReset
    \/ EarRun
    \/ EarRecord
    \/ Evaluate
    \/ EvRun

Spec == Init /\ [][Next]_vars
\* ================================================================ claims
\* which call a step belongs to
IsStartStep == (last_op' = "start" /\ nOps' = nOps + 1) \/ pc = "ear_start"
IsRecordStep == (last_op' = "record" /\ nOps' = nOps + 1) \/ pc = "ear_record"
IsFlushStep == last_op' = "flush" /\ nOps' = nOps + 1

RECURSIVE PushedRecords(_)
\* the records arguments of the first n push_evaluation_records calls, in order
PushedRecords(n) ==
    IF n = 0 THEN <<>> ELSE PushedRecords(n - 1) \o pushed[n].records

\* every per-sample dict handed over so far, pushed or still buffered
AllRecords == PushedRecords(Len(pushed)) \o BufGet(buffer, "records")
IdBuffer == BufGet(buffer, "eval_ids")
RecordBuffer_ == BufGet(buffer, "records")

\* the push_evaluation_records call made by this step, if any: it returned
\* (one more batch in the store) or it raised
PushReturned == Len(pushed') = Len(pushed) + 1
PushAttempted == PushReturned \/ (err' = "DbError" /\ ~IsStartStep)

\* C1 (as claimed): the k-th record call since start (k = 0, 1, ...) stamps
\* sample i's dict with word_id = inputs[i, k], and the step counter advances
\* by one per record call.
C1_WordIdFollowsStep ==
    [][(IsRecordStep /\ inputs.kind = "nd2" /\ nrec < Shape1(inputs)
        /\ err' # "DbError")
       => /\ Len(AllRecords') = Len(AllRecords) + batch_size
          /\ \A i \in 1..batch_size :
                AllRecords'[Len(AllRecords) + i]["word_id"] = inputs.rows[i][nrec + 1]
          /\ step' = step + 1]_vars

\* C2 (as claimed): when evaluate_and_record returns normally, no record is
\* left in the Recorder's buffer: all of them have been pushed.
C2_FullTracePersisted ==
    (pc = "done" /\ frame.fn = "evaluate_and_record" /\ ~db_failed)
    => /\ Len(RecordBuffer_) = 0
       /\ Len(IdBuffer) = 0
       /\ (calls = 1 =>
             Len(PushedRecords(Len(pushed))) = Shape0(frame.inputs) * frame.input_size)

\* C3: record flushes exactly when the id buffer, after this step's ids are
\* appended, holds at least flush_every ids; after the flush both buffers are
\* empty, and without it the buffer keeps every id and nothing is pushed.
\* With flush_every = 3 and a batch of 2, the first record call after start
\* pushes nothing and the second one pushes (4 ids).
C3_FlushesAtThreshold ==
    [][(IsRecordStep /\ inputs.kind = "nd2")
       => LET n == Len(IdBuffer) + Len(eval_doc_id)
          IN  /\ PushAttempted <=> n >= flush_every
              /\ PushAttempted => Len(IdBuffer') = 0 /\ Len(RecordBuffer_') = 0
              /\ PushReturned => Len(pushed'[Len(pushed')].eval_ids) = n
              /\ ~PushAttempted => Len(IdBuffer') = n /\ pushed' = pushed
              /\ (flush_every = 3 /\ batch_size = 2 /\ Len(eval_doc_id) = 2
                  /\ pushed = <<>> /\ nrec = 0 /\ Len(IdBuffer) = 0)
                 => ~PushAttempted
              /\ (flush_every = 3 /\ batch_size = 2 /\ Len(eval_doc_id) = 2
                  /\ pushed = <<>> /\ nrec = 1 /\ Len(IdBuffer) = 2)
                 => PushAttempted]_vars

\* C3, witness: the second record call of a Recorder with flush_every = 3
\* and a batch of 2 has pushed its 4 ids
C3_Witness ==
    /\ last_op = "record" /\ err = "none" /\ nrec = 2
    /\ flush_every = 3 /\ batch_size = 2
    /\ Len(pushed) = 1 /\ Len(pushed[1].eval_ids) = 4
    /\ Len(IdBuffer) = 0

\* C4 (as claimed): flush() on empty buffers completes without error and
\* persists nothing.
C4_FlushEmptyIsSafe ==
    [][(IsFlushStep /\ Len(IdBuffer) = 0 /\ Len(RecordBuffer_) = 0)
       => err' = "none" /\ pushed' = pushed]_vars

\* the sample (row number) a document and a per-sample dict belong to
DocOf(id) == CHOOSE d \in {inserted[n] : n \in 1..Len(inserted)} : d.id = id
SampleOfTokens(row) == row[1] \div 10
SampleOfRecord(r) == r["word_id"] \div 10

\* C5 (as claimed): every push_evaluation_records call gets as many ids as
\* records, the j-th id being the document of the j-th record's sample.
C5_ParallelIndexed ==
    ~db_failed =>
    \A n \in 1..Len(pushed) :
        /\ Len(pushed[n].eval_ids) = Len(pushed[n].records)
        /\ \A j \in 1..Len(pushed[n].eval_ids) :
              j <= Len(pushed[n].records) =>
                 SampleOfTokens(DocOf(pushed[n].eval_ids[j]).tokens)
                    = SampleOfRecord(pushed[n].records[j])
\* C6 (as claimed): right after any start call returns, the step counter is
\* 0, both buffers are empty and eval_doc_id holds exactly the ids of the
\* inputs.shape[0] documents this call created.
C6_StartResets ==
    [][(IsStartStep /\ err' = "none")
       => /\ step' = 0
          /\ Len(IdBuffer') = 0 /\ Len(RecordBuffer_') = 0
          /\ Len(eval_doc_id') = Shape0(inputs')
          /\ \A i \in 1..Len(eval_doc_id') :
                Len(inserted) + i <= Len(inserted')
                /\ eval_doc_id'[i] = inserted'[Len(inserted) + i].id]_vars

\* C7: a start call that returns makes exactly B insert_evaluation calls, the
\* i-th with (data_name, model_name, row i of inputs), appends the returned
\* ids in that order, and sets batch_size = B.
C7_StartInsertsRows ==
    [][(IsStartStep /\ err' = "none")
       => LET B == Shape0(inputs')
              n0 == Len(inserted)
              d0 == Len(eval_doc_id)
          IN  /\ Len(inserted') = n0 + B
              /\ Len(eval_doc_id') = d0 + B
              /\ batch_size' = B
              /\ \A i \in 1..B :
                    /\ inserted'[n0 + i].data_name = data_name
                    /\ inserted'[n0 + i].model_name = model_name
                    /\ inserted'[n0 + i].tokens = inputs'.rows[i]
                    /\ eval_doc_id'[d0 + i] = inserted'[n0 + i].id
              /\ \A i \in 1..n0 : inserted'[i] = inserted[i]
              /\ \A i \in 1..d0 : eval_doc_id'[i] = eval_doc_id[i]]_vars

\* C7, witness: a start with two rows of two tokens has returned
C7_Witness ==
    /\ last_op = "start" /\ err = "none"
    /\ batch_size = 2 /\ Shape1(inputs) = 2
    /\ Len(inserted) = 2 /\ inserted[2].tokens = inputs.rows[2]
    /\ eval_doc_id = <<inserted[1].id, inserted[2].id>>

\* the collaborator calls of the current call other than reset_state
Steps == SelectSeq(trace, LAMBDA e : e.op # "reset_state")
Column(a, i) == [r \in 1..Len(a.rows) |-> <<a.rows[r][i + 1]>>]

\* C8, the order of the calls: recorder.start(inputs, targets) is the first
\* call and is made once; then for i = 0, 1, ... the model is run on column i
\* of inputs (and of targets, or None) and the bundle of that run is handed
\* to one record call before the next run.
C8_Order ==
    frame.fn = "evaluate_and_record" =>
       /\ \A n \in 1..Len(Steps) :
             LET e == Steps[n]
                 i == (n - 2) \div 2
             IN  /\ n = 1 => /\ e.op = "start"
                             /\ e.inputs = frame.inputs
                             /\ e.targets = frame.targets
                 /\ (n > 1 /\ n % 2 = 0) =>
                       /\ e.op = "run" /\ e.i = i
                       /\ e.inputs.kind = "nd2"
                       /\ e.inputs.rows = Column(frame.inputs, i)
                       /\ IF frame.targets.kind = "none"
                          THEN e.targets.kind = "none"
                          ELSE /\ e.targets.kind = "nd2"
                               /\ e.targets.rows = Column(frame.targets, i)
                 /\ (n > 1 /\ n % 2 = 1) =>
                       /\ e.op = "record" /\ e.i = i
                       /\ e.evals = Steps[n - 1].evals
       /\ pc = "ear_record" => Len(Steps) % 2 = 0 /\ Len(Steps) > 1

\* C8 (as claimed): the calls are made in that order for every position
\* i = 0..length-1: a call that was given a 2-D array and whose collaborators
\* did not raise ends only after every column has been run and recorded.
C8_StartThenRunRecord ==
    /\ C8_Order
    /\ (/\ frame.fn = "evaluate_and_record" /\ pc \in {"done", "raised"}
        /\ err \notin {"TypeError", "AssertionError", "DbError"})
       => Len(Steps) = 1 + 2 * Shape1(frame.inputs)

\* C9 (as claimed): every model.run of evaluate_and_record is given a stride
\* of 1, whatever record_every is; evaluate gives record_every.
C9_StrideIsOne ==
    \A n \in 1..Len(trace) :
        trace[n].op = "run" =>
            trace[n].stride = IF frame.fn = "evaluate_and_record" THEN 1
                              ELSE record_every

ResetsBefore(n) == {m \in 1..(n - 1) : trace[m].op = "reset_state"}

\* C10 (as claimed): in each call reset_state is the first collaborator call,
\* and it is made once.
C10_ResetFirst ==
    /\ Len(trace) > 0 => trace[1].op = "reset_state"
    /\ Cardinality(ResetsBefore(Len(trace) + 1)) <= 1

\* C10 (amended): each call makes one reset_state call, before its first
\* model.run, so the first run of a call starts from a reset model; evaluate
\* makes it first, evaluate_and_record right after recorder.start.
C10_ResetBeforeRun ==
    /\ Cardinality(ResetsBefore(Len(trace) + 1)) <= 1
    /\ \A n \in 1..Len(trace) :
          trace[n].op = "run" => Cardinality(ResetsBefore(n)) = 1
    /\ (frame.fn = "evaluate" /\ Len(trace) > 0) => trace[1].op = "reset_state"
    /\ (frame.fn = "evaluate_and_record" /\ Len(trace) > 0)
          => trace[1].op = "start"
    /\ (frame.fn = "evaluate_and_record" /\ Len(trace) > 1)
          => trace[2].op = "reset_state"
    /\ (pc \in {"ear_run", "ev_run"} /\ frame.i = 0) => model_state = 0

\* C10, witness: the second evaluate_and_record call on one Recorder is about
\* to run its first step, the model reset after an earlier call
C10_Witness ==
    /\ calls = 2 /\ pc = "ear_run" /\ frame.i = 0
    /\ Len(trace) = 2 /\ model_state = 0
    /\ Len(inserted) > Shape0(frame.inputs)

\* the run and record calls the current call has made so far
Runs == SelectSeq(trace, LAMBDA e : e.op = "run")
Records == SelectSeq(trace, LAMBDA e : e.op = "record")

\* C11 (as claimed): an evaluate_and_record call whose inputs do not convert
\* to a 2-D array ends with a TypeError, and no collaborator call (start,
\* insert_evaluation, reset_state, run, record) is made by it.
C11_BadInputsTypeError ==
    (frame.fn = "evaluate_and_record" /\ frame.inputs.kind # "nd2")
    => /\ trace = <<>>
       /\ pc \in {"ear_start", "raised"}
       /\ pc = "raised" => err = "TypeError"

\* C12 (as claimed): an evaluate_and_record call with valid inputs whose
\* targets are given and do not convert to a 2-D array ends with a TypeError,
\* before recorder.start and before any model step.
C12_BadTargetsTypeError ==
    (/\ frame.fn = "evaluate_and_record" /\ frame.inputs.kind = "nd2"
     /\ frame.targets.kind \notin {"none", "nd2"})
    => /\ trace = <<>>
       /\ pc \in {"ear_start", "raised"}
       /\ pc = "raised" => err = "TypeError"

\* C13: when insert_evaluation (in start) or push_evaluation_records (in
\* record or flush) raises, the call ends with that error; the batches stored
\* by earlier pushes and the documents inserted earlier are untouched; the
\* batch of a failed push is not kept for another attempt (the buffers are
\* empty); and an evaluate_and_record call that has raised makes no further
\* collaborator call: the next step is a new call.
C13_PersistenceFailureAborts ==
    [][/\ ((IsStartStep \/ IsRecordStep \/ IsFlushStep) /\ err' = "DbError")
          => /\ pushed' = pushed
             /\ Len(inserted') >= Len(inserted)
             /\ \A n \in 1..Len(inserted) : inserted'[n] = inserted[n]
             /\ pc \in {"ear_start", "ear_record"} => pc' = "raised"
             /\ ~IsStartStep => Len(IdBuffer') = 0 /\ Len(RecordBuffer_') = 0
             /\ IsStartStep => buffer' = buffer
       /\ pc = "raised"
          => /\ calls' = calls + 1
             /\ UNCHANGED <<recVars, dbVars>>
             /\ \A n \in 1..Len(trace') : trace'[n].op = "reset_state"]_vars

\* C13, witness: the second push of an evaluate_and_record call has raised
\* after its first push was stored
C13_Witness ==
    /\ frame.fn = "evaluate_and_record" /\ pc = "raised" /\ err = "DbError"
    /\ frame.i = 2 /\ Len(Runs) = 2 /\ Len(Records) = 2
    /\ Len(pushed) = 1 /\ Len(RecordBuffer_) = 0

RECURSIVE SumLoss(_), SumAcc(_)
\* the loss and acc-1 sums returned by the first n model.run calls of the call
SumLoss(n) == IF n = 0 THEN 0 ELSE SumLoss(n - 1) + Runs[n].sums.loss
SumAcc(n) == IF n = 0 THEN 0 ELSE SumAcc(n - 1) + Runs[n].sums.acc

\* C14: an evaluate call that returns has made exactly input_size model.run
\* calls, each with sum_ops loss and acc-1, and its average loss and accuracy
\* are the sums of the returned block sums divided by
\* input_size * record_every (record_every is 1 or 4 here).
C14_AveragePerTimeStep ==
    (frame.fn = "evaluate" /\ pc = "done")
    => LET n == frame.input_size * record_every
       IN  /\ Len(Runs) = frame.input_size
           /\ \A k \in 1..Len(Runs) : Runs[k].sum_ops = {"loss", "acc-1"}
           /\ frame.loss[2] # 0 /\ frame.acc_avg[2] # 0
           /\ frame.loss[1] * n = SumLoss(Len(Runs)) * frame.loss[2]
           /\ frame.acc_avg[1] * n = SumAcc(Len(Runs)) * frame.acc_avg[2]

\* C14, witness: an evaluate call of two blocks of four time-steps has
\* returned: 3 + 5 over 8 steps
C14_Witness ==
    /\ frame.fn = "evaluate" /\ pc = "done"
    /\ record_every = 4 /\ frame.input_size = 2
    /\ SumLoss(2) = 8 /\ frame.loss = <<8, 8>> /\ frame.acc_avg = <<3, 8>>

\* C15 (as claimed): whatever flags the constructor is called with, it
\* returns an Evaluator whose summary_ops has the keys the flags select:
\* state groups iff log_state, input (and input_embedding when the model maps
\* ids to embeddings) iff log_input, output iff log_output, inputs_gradients
\* iff log_gradients; every model.run call is handed that mapping as eval_ops.
C15_KeysFollowFlags ==
    init_args # NoArgs
    => LET D == DOMAIN summary_ops
       IN  /\ constructed /\ err # "AttributeError"
           /\ ({"state", "state_c", "state_h"} \cap D # {}) <=> init_args.log_state
           /\ "input" \in D <=> init_args.log_input
           /\ "input_embedding" \in D
                 <=> (init_args.log_input /\ init_args.map_to_embedding)
           /\ "output" \in D <=> init_args.log_output
           /\ "inputs_gradients" \in D <=> init_args.log_gradients
           /\ \A n \in 1..Len(Runs) : Runs[n].eval_ops = summary_ops

\* the layer numbers of a stacked group, along the new axis
GroupLayers(group) == [j \in 1..Len(group) |-> group[j].layer]
\* group `name` holds part `kind` of exactly the layers of type `type`, in
\* layer order, and is absent when there is no such layer
GroupIs(name, kind, type) ==
    LET ls == {l \in 1..Len(model.layers) : model.layers[l] = type}
    IN  IF ls = {} THEN name \notin DOMAIN summary_ops
        ELSE /\ name \in DOMAIN summary_ops
             /\ {GroupLayers(summary_ops[name])[j] :
                    j \in 1..Len(summary_ops[name])} = ls
             /\ Len(summary_ops[name]) = Cardinality(ls)
             /\ \A j \in 1..Len(summary_ops[name]) :
                   /\ summary_ops[name][j].kind = kind
                   /\ j > 1 => summary_ops[name][j - 1].layer
                                  < summary_ops[name][j].layer

\* C16: with log_state, `state` stacks exactly the plain layers in layer
\* order, state_c / state_h the cell / hidden parts of exactly the paired
\* layers in layer order, and a group without layer is absent. For layers
\* (plain, pair, plain), numbered from 1 here: state = layers 1 and 3,
\* state_c = state_h = layer 2.
C16_StateGroups ==
    (constructed /\ init_args.log_state)
    => /\ GroupIs("state", "state", "plain")
       /\ GroupIs("state_c", "c", "lstm")
       /\ GroupIs("state_h", "h", "lstm")
       /\ model.layers = <<"plain", "lstm", "plain">>
          => /\ GroupLayers(summary_ops["state"]) = <<1, 3>>
             /\ GroupLayers(summary_ops["state_c"]) = <<2>>
             /\ GroupLayers(summary_ops["state_h"]) = <<2>>

\* C16, witness: an Evaluator built with log_state on layers (plain, pair,
\* plain)
C16_Witness ==
    /\ constructed /\ init_args.log_state
    /\ init_args.layers = <<"plain", "lstm", "plain">>
    /\ Len(summary_ops["state"]) = 2 /\ Len(summary_ops["state_c"]) = 1

\* C17 (as claimed): an evaluate_and_record call on a 2-D array (targets
\* None or 2-D) whose collaborators do not raise returns normally after
\* exactly L model steps and L record calls, for verbose true and false.
C17_RunsToCompletion ==
    (/\ frame.fn = "evaluate_and_record" /\ frame.inputs.kind = "nd2"
     /\ frame.targets.kind \in {"none", "nd2"}
     /\ pc \in {"done", "raised"} /\ err # "DbError")
    => /\ pc = "done" /\ err = "none"
       /\ Len(Runs) = Shape1(frame.inputs)
       /\ Len(Records) = Shape1(frame.inputs)

\* C18: at the start of iteration i of evaluate (and when the loop has ended,
\* i = input_size) i runs have been made, each with stride record_every and
\* the caller's refresh_state; without refresh_state the model has run
\* i * record_every time-steps since the reset that opened the call, with it
\* the model holds only the steps of the last block.
C18_EvaluateLoopInvariant ==
    (frame.fn = "evaluate" /\ pc \in {"ev_run", "done"})
    => /\ Len(Runs) = frame.i /\ frame.i <= frame.input_size
       /\ trace[1].op = "reset_state"
       /\ \A n \in 1..Len(Runs) :
             /\ Runs[n].refresh_state = frame.refresh_state
             /\ Runs[n].stride = record_every
       /\ ~frame.refresh_state => model_state = frame.i * record_every
       /\ frame.refresh_state
             => model_state = IF frame.i = 0 THEN 0 ELSE record_every

\* C18, witness: the second iteration of an evaluate call with blocks of four
\* time-steps is about to start, state carried over
C18_Witness ==
    /\ frame.fn = "evaluate" /\ pc = "ev_run" /\ frame.i = 1
    /\ ~frame.refresh_state /\ record_every = 4 /\ model_state = 4

\* C19 (as claimed): whenever a record or flush call made after a start call
\* has returned, and in every state between the calls, the id buffer and the
\* record buffer each hold fewer than flush_every entries.
C19_BufferBounded ==
    /\ Len(IdBuffer) < flush_every
    /\ Len(RecordBuffer_) < flush_every

\* exactly one start call has been made, and it returned
StartedOnce ==
    /\ inputs.kind = "nd2"
    /\ Len(eval_doc_id) = batch_size /\ Len(inserted) = batch_size

\* C20: after one start and while the store has not failed, the records of
\* all pushes in call order, followed by the buffered records, are exactly
\* the per-sample dicts record has produced, in the order produced: step by
\* step, and within a step by sample index.
C20_NoLossNoDuplication ==
    (StartedOnce /\ ~db_failed)
    => /\ AllRecords = produced
       /\ Len(AllRecords) = nrec * batch_size
       /\ \A k \in 1..Len(AllRecords) :
             SampleOfRecord(AllRecords[k]) = ((k - 1) % batch_size) + 1

\* C20, witness: two record calls on a batch of two, each flushed by its own
\* push, with different values in the two steps
C20_Witness ==
    /\ StartedOnce /\ ~db_failed /\ batch_size = 2
    /\ Len(pushed) = 2 /\ Len(produced) = 4 /\ Len(RecordBuffer_) = 0
    /\ pushed[1].records # pushed[2].records
====
